---- MODULE Spec2Model ----
(***************************************************************************)
(* StyleGuideBuddy: the rule-based annotation engine.                      *)
(*                                                                         *)
(* Two copies of analyze_doc exist in the repository:                      *)
(*   checker/run.py   the four-pass engine (literal rules, ALL CAPS,       *)
(*                    British spelling, dictionary rarity)                 *)
(*   textile_app.py   the Streamlit app's checker (literal rules only)     *)
(* Both are modelled, over the same state, as loops that take one step per *)
(* loop iteration.  Text is a sequence of one-character strings and every  *)
(* offset is 0-based, as in the Python source.                             *)
(***************************************************************************)
EXTENDS Integers, Sequences, FiniteSets, TLC

VARIABLES
    doc,              \* the document: a sequence of paragraphs [text, runs]
    data,             \* the rule store: a sequence of sections [name, items]
    freq,             \* the word-frequency oracle: lowercase word -> frequency
    pc,               \* position of analyze_doc
    rules,            \* the flat rule list built before the paragraph loop
    para_idx,         \* 1-based index of the paragraph being processed
    ri,               \* 1-based index of the rule being scanned
    it,               \* the matches re.finditer has still to yield
    char_to_run,      \* offset -> index of the run that owns the character
    applied_indices,  \* offsets claimed in the current paragraph
    reported,         \* (pattern, para_idx) pairs already reported
    color,            \* color[p][r]: font colour of run r of paragraph p
    results,          \* the Issue list
    accepted,         \* history: every accepted match, in order
    before_text,      \* generate_diff: its first argument
    after_text,       \* generate_diff: its second argument
    diff,             \* generate_diff: the tokens difflib.ndiff has still to yield
    result,           \* generate_diff: the list of rendered tokens
    returned          \* history: [tokens, text] of every finished generate_diff call

\* the state of analyze_doc and the state of generate_diff
docVars == <<doc, data, freq, rules, para_idx, ri, it, char_to_run,
             applied_indices, reported, color, results, accepted>>
diffVars == <<before_text, after_text, diff, result, returned>>
vars == <<pc, docVars, diffVars>>

(***************************************************************************)
(* Characters                                                              *)
(***************************************************************************)
UpperSeq == <<"A","B","C","D","E","F","G","H","I","J","K","L","M",
              "N","O","P","Q","R","S","T","U","V","W","X","Y","Z">>
LowerSeq == <<"a","b","c","d","e","f","g","h","i","j","k","l","m",
              "n","o","p","q","r","s","t","u","v","w","x","y","z">>

UpperSet == {UpperSeq[i] : i \in 1..26}
LowerSet == {LowerSeq[i] : i \in 1..26}
Letters  == UpperSet \cup LowerSet
Digits   == {"0","1","2","3","4","5","6","7","8","9"}
Space    == {" "}

\* str.lower() on one character
LowerMap == [c \in UpperSet |-> LowerSeq[CHOOSE i \in 1..26 : UpperSeq[i] = c]]
LowerCh(c) == IF c \in UpperSet THEN LowerMap[c] ELSE c
LowerAsWritten(s) == s
Lower(s) == [k \in 1..Len(s) |-> LowerCh(s[k])]

\* the regex class \w
IsWordCh(c) == c \in Letters \cup Digits \cup {"_"}

\* str.isupper(): every cased character is upper case, and there is one
IsUpper(s) == /\ \E k \in 1..Len(s) : s[k] \in UpperSet
              /\ \A k \in 1..Len(s) : s[k] \notin LowerSet

\* str.isalpha()
IsAlpha(s) == Len(s) > 0 /\ \A k \in 1..Len(s) : s[k] \in Letters

\* text.strip() is empty
IsBlank(s) == \A k \in 1..Len(s) : s[k] \in Space

\* text[s:e] with 0-based offsets
Slice(text, s, e) == [k \in 1..(e - s) |-> text[s + k]]

(***************************************************************************)
(* Regular expressions                                                     *)
(***************************************************************************)
\* \b at offset i: exactly one of the characters around i is a word character
AtBoundary(text, i) ==
    LET before == i > 0 /\ IsWordCh(text[i])
        after  == i < Len(text) /\ IsWordCh(text[i + 1])
    IN  before # after

\* one character of a literal pattern against one of the text
SameCh(a, b, ignorecase) == IF ignorecase THEN LowerCh(a) = LowerCh(b) ELSE a = b

\* \b<escaped pattern>\b matches at offset s
LiteralAt(text, pat, s, ignorecase) ==
    /\ s + Len(pat) <= Len(text)
    /\ \A k \in 1..Len(pat) : SameCh(text[s + k], pat[k], ignorecase)
    /\ AtBoundary(text, s)
    /\ AtBoundary(text, s + Len(pat))

FindFirstLiteral(text, pat, ignorecase) ==
    LET hits == {s \in 0..Len(text) : LiteralAt(text, pat, s, ignorecase)}
    IN  IF hits = {} THEN <<>>
        ELSE LET s == CHOOSE x \in hits : \A y \in hits : x <= y
             IN  <<[start |-> s, end |-> s + Len(pat)]>>

\* re.finditer(rf"\b{re.escape(pattern)}\b", text, flags): the spans, left to
\* right and non-overlapping; an empty match is followed by a search one
\* character further on
RECURSIVE LiteralFrom(_, _, _, _)
LiteralFrom(text, pat, from, ignorecase) ==
    IF from > Len(text) THEN <<>>
    ELSE LET hits == {s \in from..Len(text) : LiteralAt(text, pat, s, ignorecase)}
         IN  IF hits = {} THEN <<>>
             ELSE LET s == CHOOSE x \in hits : \A y \in hits : x <= y
                      e == s + Len(pat)
                  IN  <<[start |-> s, end |-> e]>> \o
                      LiteralFrom(text, pat, IF e = s THEN e + 1 ELSE e, ignorecase)

FindLiteral(text, pat, ignorecase) == LiteralFrom(text, pat, 0, ignorecase)

\* \b[class]{min,}\b at offset s: the ends e the pattern can stop at
ClassEnds(text, cls, min, s) ==
    {e \in (s + min)..Len(text) :
        /\ \A k \in (s + 1)..e : text[k] \in cls
        /\ AtBoundary(text, e)}

\* re.finditer(r"\b[class]{min,}\b", text): greedy, so the longest end wins
RECURSIVE ClassFrom(_, _, _, _)
ClassFrom(text, cls, min, from) ==
    IF from > Len(text) THEN <<>>
    ELSE LET hits == {s \in from..Len(text) :
                        AtBoundary(text, s) /\ ClassEnds(text, cls, min, s) # {}}
         IN  IF hits = {} THEN <<>>
             ELSE LET s  == CHOOSE x \in hits : \A y \in hits : x <= y
                      es == ClassEnds(text, cls, min, s)
                      e  == CHOOSE x \in es : \A y \in es : y <= x
                  IN  <<[start |-> s, end |-> e]>> \o ClassFrom(text, cls, min, e)

FindClass(text, cls, min) == ClassFrom(text, cls, min, 0)

(***************************************************************************)
(* Configuration of checker/run.py                                         *)
(***************************************************************************)
\* None, as a text no string of characters equals
None   == <<"None">>
RED    == <<255, 0, 0>>
ORANGE == <<255, 165, 0>>

RULE_COLOR_RGB ==
    [t \in {"style guide rule", "style guide caution"} |->
        IF t = "style guide rule" THEN RED ELSE ORANGE]

\* str.title() on the two rule types
Title(t) == IF t = "style guide rule" THEN "Style Guide Rule"
            ELSE IF t = "style guide caution" THEN "Style Guide Caution"
            ELSE t

BRITISH_TO_AMERICAN ==
    <<  [k |-> <<"o","r","g","a","n","i","s","a","t","i","o","n">>,
         v |-> <<"o","r","g","a","n","i","z","a","t","i","o","n">>],
        [k |-> <<"o","r","g","a","n","i","s","a","t","i","o","n","s">>,
         v |-> <<"o","r","g","a","n","i","z","a","t","i","o","n","s">>],
        [k |-> <<"c","o","l","o","u","r">>,     v |-> <<"c","o","l","o","r">>],
        [k |-> <<"c","o","l","o","u","r","s">>, v |-> <<"c","o","l","o","r","s">>],
        [k |-> <<"f","i","b","r","e">>,         v |-> <<"f","i","b","e","r">>],
        [k |-> <<"p","r","o","g","r","a","m","m","e">>,
         v |-> <<"p","r","o","g","r","a","m">>],
        [k |-> <<"l","a","b","o","u","r">>,     v |-> <<"l","a","b","o","r">>],
        [k |-> <<"c","e","n","t","r","e">>,     v |-> <<"c","e","n","t","e","r">>],
        [k |-> <<"b","e","h","a","v","i","o","u","r">>,
         v |-> <<"b","e","h","a","v","i","o","r">>],
        [k |-> <<"t","r","a","v","e","l","l","i","n","g">>,
         v |-> <<"t","r","a","v","e","l","i","n","g">>],
        [k |-> <<"t","r","a","v","e","l","l","e","d">>,
         v |-> <<"t","r","a","v","e","l","e","d">>] >>

\* lower in BRITISH_TO_AMERICAN
IsBritish(w) == \E n \in 1..Len(BRITISH_TO_AMERICAN) : BRITISH_TO_AMERICAN[n].k = w
\* BRITISH_TO_AMERICAN[lower]
American(w) ==
    BRITISH_TO_AMERICAN[CHOOSE n \in 1..Len(BRITISH_TO_AMERICAN) :
                            BRITISH_TO_AMERICAN[n].k = w].v

\* freq < 1e-6, frequencies counted in units of 1e-8
RARITY_THRESHOLD == 100

\* word_frequency(word, "en"): 0.0 for a word the oracle does not know
Frequency(w) == IF w \in DOMAIN freq THEN freq[w] ELSE 0

\* freq < 1e-6
IsRareLE(w) == Frequency(w) <= RARITY_THRESHOLD
IsRare(w) == Frequency(w) < RARITY_THRESHOLD

\* "ALL CAPS sentence"
ALL_CAPS == <<"A","L","L"," ","C","A","P","S"," ","s","e","n","t","e","n","c","e">>
CAPS_MESSAGE ==
    "Avoid full capitalisation. Use sentence case unless this is an approved acronym."
BRITISH_MESSAGE == "British spelling detected. Use American English."
SPELL_MESSAGE == "Word not recognized in American English dictionary."

(***************************************************************************)
(* load_rules of checker/run.py                                            *)
(***************************************************************************)
\* os.path.exists(RULES_FILE) is False
NoFile == [exists |-> FALSE, sections |-> <<>>]

\* dict.get(key, default)
Get(d, key, default) == IF key \in DOMAIN d THEN d[key] ELSE default

RuleOfItem(section_name, item) ==
    LET raw_type == Get(item, "type", "flag_only")
    IN  [pattern        |-> Get(item, "match", <<>>),
         message        |-> Get(item, "message", ""),
         replace_with   |-> Get(item, "replace_with", None),
         rule_type      |-> IF raw_type = "flag_only" \/ section_name = "style_guide_caution"
                            THEN "style guide caution"
                            ELSE "style guide rule",
         case_sensitive |-> Get(item, "case_sensitive", FALSE)]

RECURSIVE LoadSections(_)
LoadSections(d) ==
    IF d = <<>> THEN <<>>
    ELSE [k \in 1..Len(Head(d).items) |-> RuleOfItem(Head(d).name, Head(d).items[k])]
         \o LoadSections(Tail(d))

load_rules(d) == IF ~d.exists THEN <<>> ELSE LoadSections(d.sections)

(***************************************************************************)
(* analyze_doc of checker/run.py                                           *)
(***************************************************************************)
Text == doc[para_idx].text

\* the char_to_run dictionary: the runs' characters numbered consecutively
RECURSIVE RunStarts(_)
RunStarts(runs) ==
    IF runs = <<>> THEN <<>>
    ELSE <<0>> \o [k \in 1..(Len(runs) - 1) |-> Len(runs[1]) + RunStarts(Tail(runs))[k]]

RECURSIVE TotalLen(_)
TotalLen(runs) == IF runs = <<>> THEN 0 ELSE Len(Head(runs)) + TotalLen(Tail(runs))

CharToRun(runs) ==
    LET starts == RunStarts(runs)
    IN  [pos \in 0..(TotalLen(runs) - 1) |->
            CHOOSE r \in 1..Len(runs) :
                starts[r] <= pos /\ pos < starts[r] + Len(runs[r])]

SpanShort(m) == m.start..(m.end - 2)
Span(m) == m.start..(m.end - 1)

\* any(i in applied_indices for i in range(start, end))
OverlapsAtStart(m) == m.start \in applied_indices
Overlaps(m) == \E i \in Span(m) : i \in applied_indices

PaintStart(m, c) ==
    [color EXCEPT ![para_idx] =
        [r \in DOMAIN color[para_idx] |->
            IF m.start < m.end /\ char_to_run[m.start] = r THEN c ELSE color[para_idx][r]]]

PaintParagraph(m, c) ==
    [color EXCEPT ![para_idx] = [r \in DOMAIN color[para_idx] |-> c]]

\* for i in range(start, end): char_to_run[i].font.color.rgb = c
Paint(m, c) ==
    [color EXCEPT ![para_idx] =
        [r \in DOMAIN color[para_idx] |->
            IF \E i \in Span(m) : char_to_run[i] = r THEN c ELSE color[para_idx][r]]]

IssueZeroBased(match, category, message, replacement, start) ==
    [match                 |-> match,
     rule_category         |-> category,
     message               |-> message,
     suggested_replacement |-> replacement,
     context               |-> Text,
     paragraph_index       |-> para_idx,
     char_index            |-> start]

Issue(match, category, message, replacement, start) ==
    [match                 |-> match,
     rule_category         |-> category,
     message               |-> message,
     suggested_replacement |-> replacement,
     context               |-> Text,
     paragraph_index       |-> para_idx,
     char_index            |-> start + 1]

Accept(pass, rule, m) ==
    Append(accepted, [para |-> para_idx, pass |-> pass, rule |-> rule,
                      start |-> m.start, end |-> m.end])

Words(text) == FindClass(text, Letters \cup {"'"}, 1)

ReportKeyOfRule(rule) == <<rule, para_idx>>
\* (rule["pattern"], para_idx)
ReportKey(rule) == <<rule.pattern, para_idx>>

\* char_to_run[i] exists for every i of range(start, end)
Mapped(m) == Span(m) \subseteq DOMAIN char_to_run

\* the match that is next passes the tests of its pass and reaches the loop
\* that colours it
ReachesColouring ==
    LET m == Head(it)
        word == Slice(Text, m.start, m.end)
    IN  CASE pc = "rules"    -> ~(Overlaps(m) \/ ReportKey(rules[ri]) \in reported)
          [] pc = "capsloop" -> ~Overlaps(m)
          [] pc = "british"  -> IsBritish(Lower(word)) /\ ~Overlaps(m)
          [] pc = "spell"    -> ~Overlaps(m) /\ IsAlpha(word) /\ IsRare(Lower(word))
          [] OTHER           -> FALSE

\* the colouring loop runs to its end: no char_to_run[i] raises KeyError
NoKeyError == ReachesColouring => Mapped(Head(it))

\* doc = Document(uploaded_file); rules = load_rules(); results = []
Begin ==
    /\ pc = "start"
    /\ rules' = load_rules(data)
    /\ pc' = "para"
    /\ UNCHANGED <<doc, data, freq, para_idx, ri, it, char_to_run,
                   applied_indices, reported, color, results, accepted>>
    /\ UNCHANGED diffVars

\* the head of the paragraph loop: a blank paragraph is skipped, any other gets
\* its character map and empty claim sets
NextParagraph ==
    /\ pc = "para"
    /\ para_idx < Len(doc)
    /\ para_idx' = para_idx + 1
    /\ IF IsBlank(doc[para_idx + 1].text)
       THEN UNCHANGED <<pc, ri, it, char_to_run, applied_indices, reported>>
       ELSE /\ char_to_run' = CharToRun(doc[para_idx + 1].runs)
            /\ applied_indices' = {}
            /\ reported' = {}
            /\ ri' = 0
            /\ it' = <<>>
            /\ pc' = "rules"
    /\ UNCHANGED <<doc, data, freq, rules, color, results, accepted>>
    /\ UNCHANGED diffVars

\* return doc, results
Return ==
    /\ pc = "para"
    /\ para_idx = Len(doc)
    /\ pc' = "done"
    /\ UNCHANGED <<doc, data, freq, rules, para_idx, ri, it, char_to_run,
                   applied_indices, reported, color, results, accepted>>
    /\ UNCHANGED diffVars

\* for rule in rules: a rule with an empty pattern is passed over, any other
\* starts its finditer
NextRule ==
    /\ pc = "rules"
    /\ it = <<>>
    /\ ri < Len(rules)
    /\ ri' = ri + 1
    /\ it' = IF rules[ri + 1].pattern = <<>> THEN <<>>
             ELSE FindLiteral(Text, rules[ri + 1].pattern, ~rules[ri + 1].case_sensitive)
    /\ UNCHANGED <<doc, data, freq, pc, rules, para_idx, char_to_run,
                   applied_indices, reported, color, results, accepted>>
    /\ UNCHANGED diffVars

\* one match of the current rule
RuleMatch ==
    /\ pc = "rules"
    /\ it # <<>>
    /\ NoKeyError
    /\ LET m == Head(it)
           rule == rules[ri]
       IN  /\ it' = Tail(it)
           /\ IF Overlaps(m) \/ ReportKey(rule) \in reported
              THEN UNCHANGED <<applied_indices, reported, color, results, accepted>>
              ELSE /\ color' = Paint(m, RULE_COLOR_RGB[rule.rule_type])
                   /\ applied_indices' = applied_indices \cup Span(m)
                   /\ results' = Append(results,
                          Issue(Slice(Text, m.start, m.end), Title(rule.rule_type),
                                rule.message, rule.replace_with, m.start))
                   /\ reported' = reported \cup {ReportKey(rule)}
                   /\ accepted' = Accept("literal", ri, m)
    /\ UNCHANGED <<doc, data, freq, pc, rules, para_idx, ri, char_to_run>>
    /\ UNCHANGED diffVars

\* len(caps_words) / len(words) >= 0.6; a quotient k/n compares with 0.6 as
\* 5k compares with 3n
CapsTriggeredAbove(text) ==
    LET words == FindClass(text, Letters, 2)
        caps  == {k \in 1..Len(words) : IsUpper(Slice(text, words[k].start, words[k].end))}
    IN  Len(words) > 0 /\ 5 * Cardinality(caps) > 3 * Len(words)

CapsTriggered(text) ==
    LET words == FindClass(text, Letters, 2)
        caps  == {k \in 1..Len(words) : IsUpper(Slice(text, words[k].start, words[k].end))}
    IN  Len(words) > 0 /\ 5 * Cardinality(caps) >= 3 * Len(words)

\* the rule loop is over: the full-caps test
CapsCheck ==
    /\ pc = "rules"
    /\ it = <<>>
    /\ ri = Len(rules)
    /\ IF CapsTriggered(Text)
       THEN pc' = "capsloop" /\ it' = FindClass(Text, UpperSet, 2)
       ELSE pc' = "british" /\ it' = Words(Text)
    /\ UNCHANGED <<doc, data, freq, rules, para_idx, ri, char_to_run,
                   applied_indices, reported, color, results, accepted>>
    /\ UNCHANGED diffVars

\* one upper-case word of a full-caps paragraph
CapsMatch ==
    /\ pc = "capsloop"
    /\ it # <<>>
    /\ NoKeyError
    /\ LET m == Head(it)
       IN  /\ it' = Tail(it)
           /\ IF Overlaps(m)
              THEN UNCHANGED <<applied_indices, color, accepted>>
              ELSE /\ color' = Paint(m, RULE_COLOR_RGB["style guide caution"])
                   /\ applied_indices' = applied_indices \cup Span(m)
                   /\ accepted' = Accept("caps", 0, m)
    /\ UNCHANGED <<doc, data, freq, pc, rules, para_idx, ri, char_to_run,
                   reported, results>>
    /\ UNCHANGED diffVars

\* after the upper-case words: the one "ALL CAPS sentence" issue
CapsIssue ==
    /\ pc = "capsloop"
    /\ it = <<>>
    /\ results' = Append(results,
           Issue(ALL_CAPS, "Style guide caution", CAPS_MESSAGE, None, 0))
    /\ pc' = "british"
    /\ it' = Words(Text)
    /\ UNCHANGED <<doc, data, freq, rules, para_idx, ri, char_to_run,
                   applied_indices, reported, color, accepted>>
    /\ UNCHANGED diffVars

\* one word of the British spelling check
BritishMatch ==
    /\ pc = "british"
    /\ it # <<>>
    /\ NoKeyError
    /\ LET m == Head(it)
           word == Slice(Text, m.start, m.end)
           lower == Lower(word)
       IN  /\ it' = Tail(it)
           /\ IF IsBritish(lower) /\ ~Overlaps(m)
              THEN /\ color' = Paint(m, RULE_COLOR_RGB["style guide caution"])
                   /\ applied_indices' = applied_indices \cup Span(m)
                   /\ results' = Append(results,
                          Issue(word, "Style guide caution", BRITISH_MESSAGE,
                                American(lower), m.start))
                   /\ accepted' = Accept("british", 0, m)
              ELSE UNCHANGED <<applied_indices, color, results, accepted>>
    /\ UNCHANGED <<doc, data, freq, pc, rules, para_idx, ri, char_to_run, reported>>
    /\ UNCHANGED diffVars

BritishDone ==
    /\ pc = "british"
    /\ it = <<>>
    /\ pc' = "spell"
    /\ it' = Words(Text)
    /\ UNCHANGED <<doc, data, freq, rules, para_idx, ri, char_to_run,
                   applied_indices, reported, color, results, accepted>>
    /\ UNCHANGED diffVars

\* the word reaches the call of word_frequency
AsksOracle(m) == ~Overlaps(m) /\ IsAlpha(Slice(Text, m.start, m.end))

\* one word of the dictionary check, the oracle answering
SpellMatch ==
    /\ pc = "spell"
    /\ it # <<>>
    /\ NoKeyError
    /\ LET m == Head(it)
           word == Slice(Text, m.start, m.end)
       IN  /\ it' = Tail(it)
           /\ IF AsksOracle(m) /\ IsRare(Lower(word))
              THEN /\ color' = Paint(m, RULE_COLOR_RGB["style guide rule"])
                   /\ applied_indices' = applied_indices \cup Span(m)
                   /\ results' = Append(results,
                          Issue(word, "Style guide rule", SPELL_MESSAGE, None, m.start))
                   /\ accepted' = Accept("spell", 0, m)
              ELSE UNCHANGED <<applied_indices, color, results, accepted>>
    /\ UNCHANGED <<doc, data, freq, pc, rules, para_idx, ri, char_to_run, reported>>
    /\ UNCHANGED diffVars

\* word_frequency raises: nothing in analyze_doc catches it, the call ends
\* without returning
OracleRaises ==
    /\ pc = "spell"
    /\ it # <<>>
    /\ AsksOracle(Head(it))
    /\ pc' = "raised"
    /\ UNCHANGED <<doc, data, freq, rules, para_idx, ri, it, char_to_run,
                   applied_indices, reported, color, results, accepted>>
    /\ UNCHANGED diffVars

SpellDone ==
    /\ pc = "spell"
    /\ it = <<>>
    /\ pc' = "para"
    /\ UNCHANGED <<doc, data, freq, rules, para_idx, ri, it, char_to_run,
                   applied_indices, reported, color, results, accepted>>
    /\ UNCHANGED diffVars

\* the colouring loop of any pass meets an offset that char_to_run does not
\* have: the offsets before it are coloured and claimed, then KeyError ends
\* the call
PaintKeyError ==
    /\ pc \in {"rules", "capsloop", "british", "spell"}
    /\ it # <<>>
    /\ ReachesColouring
    /\ ~Mapped(Head(it))
    /\ LET m == Head(it)
           c == IF pc = "rules" THEN RULE_COLOR_RGB[rules[ri].rule_type]
                ELSE IF pc = "spell" THEN RULE_COLOR_RGB["style guide rule"]
                ELSE RULE_COLOR_RGB["style guide caution"]
           done == {i \in Span(m) : \A j \in m.start..i : j \in DOMAIN char_to_run}
       IN  /\ color' = [color EXCEPT ![para_idx] =
                            [r \in DOMAIN color[para_idx] |->
                                IF \E i \in done : char_to_run[i] = r
                                THEN c ELSE color[para_idx][r]]]
           /\ applied_indices' = applied_indices \cup done
    /\ pc' = "keyerror"
    /\ UNCHANGED <<doc, data, freq, rules, para_idx, ri, it, char_to_run,
                   reported, results, accepted>>
    /\ UNCHANGED diffVars

(***************************************************************************)
(* analyze_doc of textile_app.py                                           *)
(***************************************************************************)
SEVERITY_COLOR ==
    [t \in {"style_guide_rule", "style_guide_caution"} |->
        IF t = "style_guide_rule" THEN RED ELSE ORANGE]

CAPITALIZATION_RULES ==
    <<  [k |-> <<"i","n","d","i","g","e","n","o","u","s"," ","p","e","o","p","l","e">>,
         v |-> <<"I","n","d","i","g","e","n","o","u","s"," ","P","e","o","p","l","e">>],
        [k |-> <<"f","i","r","s","t"," ","n","a","t","i","o","n","s">>,
         v |-> <<"F","i","r","s","t"," ","N","a","t","i","o","n","s">>] >>

\* st.session_state.rules.get(cat, [])
SectionItems(d, cat) ==
    IF \E n \in 1..Len(d.sections) : d.sections[n].name = cat
    THEN d.sections[CHOOSE n \in 1..Len(d.sections) : d.sections[n].name = cat].items
    ELSE <<>>

AppRuleOfItem(cat, r) ==
    [pattern        |-> Get(r, "match", <<>>),
     message        |-> Get(r, "message", ""),
     replace_with   |-> Get(r, "replace_with", None),
     case_sensitive |-> Get(r, "case_sensitive", FALSE),
     rule_type      |-> cat]

AppCategoryRules(d, cat) ==
    [k \in 1..Len(SectionItems(d, cat)) |-> AppRuleOfItem(cat, SectionItems(d, cat)[k])]

\* the rule list of the app: the rules, the cautions, the capitalization rules
AppRules(d) ==
    AppCategoryRules(d, "style_guide_rule") \o
    AppCategoryRules(d, "style_guide_caution") \o
    [k \in 1..Len(CAPITALIZATION_RULES) |->
        [pattern        |-> CAPITALIZATION_RULES[k].k,
         message        |-> "Should be capitalized",
         replace_with   |-> CAPITALIZATION_RULES[k].v,
         case_sensitive |-> FALSE,
         rule_type      |-> "style_guide_caution"]]

AppBegin ==
    /\ pc = "app_start"
    /\ rules' = AppRules(data)
    /\ pc' = "app_para"
    /\ UNCHANGED <<doc, data, freq, para_idx, ri, it, char_to_run,
                   applied_indices, reported, color, results, accepted>>
    /\ UNCHANGED diffVars

AppNextParagraph ==
    /\ pc = "app_para"
    /\ para_idx < Len(doc)
    /\ para_idx' = para_idx + 1
    /\ IF IsBlank(doc[para_idx + 1].text)
       THEN UNCHANGED <<pc, ri, it, char_to_run, applied_indices>>
       ELSE /\ char_to_run' = CharToRun(doc[para_idx + 1].runs)
            /\ applied_indices' = {}
            /\ ri' = 0
            /\ it' = <<>>
            /\ pc' = "app_rules"
    /\ UNCHANGED <<doc, data, freq, rules, reported, color, results, accepted>>
    /\ UNCHANGED diffVars

AppReturn ==
    /\ pc = "app_para"
    /\ para_idx = Len(doc)
    /\ pc' = "app_done"
    /\ UNCHANGED <<doc, data, freq, rules, para_idx, ri, it, char_to_run,
                   applied_indices, reported, color, results, accepted>>
    /\ UNCHANGED diffVars

\* for rule in rules: every rule starts its finditer, an empty pattern too
AppNextRule ==
    /\ pc = "app_rules"
    /\ it = <<>>
    /\ ri < Len(rules)
    /\ ri' = ri + 1
    /\ it' = FindLiteral(Text, rules[ri + 1].pattern, ~rules[ri + 1].case_sensitive)
    /\ UNCHANGED <<doc, data, freq, pc, rules, para_idx, char_to_run,
                   applied_indices, reported, color, results, accepted>>
    /\ UNCHANGED diffVars

\* one match of the current rule: only a claimed offset rejects it
AppRuleMatch ==
    /\ pc = "app_rules"
    /\ it # <<>>
    /\ LET m == Head(it)
           rule == rules[ri]
       IN  /\ it' = Tail(it)
           /\ IF Overlaps(m)
              THEN UNCHANGED <<applied_indices, color, results, accepted>>
              ELSE /\ color' = Paint(m, Get(SEVERITY_COLOR, rule.rule_type, RED))
                   /\ applied_indices' = applied_indices \cup Span(m)
                   /\ results' = Append(results,
                          Issue(Slice(Text, m.start, m.end), rule.rule_type,
                                rule.message, rule.replace_with, m.start))
                   /\ accepted' = Accept("literal", ri, m)
    /\ UNCHANGED <<doc, data, freq, pc, rules, para_idx, ri, char_to_run, reported>>
    /\ UNCHANGED diffVars

\* the rule loop is over: the next paragraph
AppRulesDone ==
    /\ pc = "app_rules"
    /\ it = <<>>
    /\ ri = Len(rules)
    /\ pc' = "app_para"
    /\ UNCHANGED <<doc, data, freq, rules, para_idx, ri, it, char_to_run,
                   applied_indices, reported, color, results, accepted>>
    /\ UNCHANGED diffVars

NextApp ==
    \/ AppBegin
    \/ AppNextParagraph
    \/ AppReturn
    \/ AppNextRule
    \/ AppRuleMatch
    \/ AppRulesDone

(***************************************************************************)
(* Inputs: documents, rule files and oracles                               *)
(***************************************************************************)
colour == <<"c","o","l","o","u","r">>
Colour == <<"C","o","l","o","u","r">>
COLOUR == <<"C","O","L","O","U","R">>
zq     == <<"z","q">>
ZQ     == <<"Z","Q">>
its    == <<"i","t","'","s">>
zqq    == <<"z","q","'">>
b1     == <<"b","1">>
qz     == <<"q","z">>

\* " ".join(words)
RECURSIVE Join(_)
Join(words) ==
    IF words = <<>> THEN <<>>
    ELSE IF Len(words) = 1 THEN words[1]
    ELSE words[1] \o <<" ">> \o Join(Tail(words))

\* the text cut into runs of n characters (the last one shorter); n = 0: one run
RECURSIVE Chunk(_, _)
Chunk(text, n) ==
    IF text = <<>> THEN <<>>
    ELSE IF n = 0 \/ Len(text) <= n THEN <<text>>
    ELSE <<SubSeq(text, 1, n)>> \o Chunk(SubSeq(text, n + 1, Len(text)), n)

\* a paragraph whose runs reconstruct its text
Para(words, n) == [text |-> Join(words), runs |-> Chunk(Join(words), n)]

\* no colour set on a run: font.color.rgb is None
NoColor == <<>>

MaxParas == 2

\* the documents: up to MaxParas consecutive paragraphs of a corpus, taken cyclically
Windows(corpus) ==
    {[k \in 1..n |-> corpus[((s + k - 2) % Len(corpus)) + 1]] :
        s \in 1..Len(corpus), n \in 1..MaxParas}

InitWith(entry, docs, datas, freqs) ==
    /\ doc \in docs
    /\ data \in datas
    /\ freq \in freqs
    /\ pc = entry
    /\ rules = <<>>
    /\ para_idx = 0
    /\ ri = 0
    /\ it = <<>>
    /\ char_to_run = <<>>
    /\ applied_indices = {}
    /\ reported = {}
    /\ color = [p \in 1..Len(doc) |-> [r \in 1..Len(doc[p].runs) |-> NoColor]]
    /\ results = <<>>
    /\ accepted = <<>>
    /\ before_text = <<>>
    /\ after_text = <<>>
    /\ diff = <<>>
    /\ result = <<>>
    /\ returned = <<>>

Corpus ==
    <<  Para(<<colour, zq>>, 0),
        Para(<<zq, colour, zq>>, 7),
        Para(<<COLOUR, ZQ>>, 0),
        Para(<<zq, zq>>, 3),
        Para(<<>>, 0),
        Para(<<ZQ, zq, ZQ>>, 4),
        Para(<<colour, zq, zq>>, 0),
        Para(<< <<" ">> >>, 0),
        Para(<<Colour, its, zqq, qz>>, 5),
        Para(<<COLOUR, colour, b1, Colour>>, 0),
        Para(<<ZQ, zq>>, 0),
        Para(<<colour, colour>>, 2) >>

Item(match, type, message) ==
    [match |-> match, type |-> type, message |-> message, replace_with |-> <<"x">>]

File(sections) == [exists |-> TRUE, sections |-> sections]

RuleFiles ==
    {   NoFile,
        File(<< [name |-> "style_guide_rule",
                 items |-> <<Item(zq, "auto_fix", "m1")>>] >>),
        File(<< [name |-> "style_guide_rule",
                 items |-> <<Item(Join(<<zq, colour>>), "auto_fix", "m1")>>],
                [name |-> "style_guide_caution",
                 items |-> <<Item(Join(<<colour, zq>>), "auto_fix", "m2")>>] >>),
        File(<< [name |-> "style_guide_caution",
                 items |-> <<[match |-> colour, message |-> "m1"]>>],
                [name |-> "style_guide_rule",
                 items |-> <<Item(Join(<<colour, zq>>), "auto_fix", "m2")>>] >>),
        File(<< [name |-> "style_guide_rule",
                 items |-> <<Item(Join(<<colour, zq>>), "auto_fix", "m1"),
                             Item(Join(<<zq, colour>>), "auto_fix", "m2")>>] >>),
        File(<< [name |-> "style_guide_rule",
                 items |-> <<Item(<<" ">>, "auto_fix", "m1"),
                             Item(zq, "auto_fix", "m2")>>] >>),
        File(<< [name |-> "terminology",
                 items |-> <<[match |-> zq, message |-> "m1", case_sensitive |-> TRUE],
                             Item(zq, "auto_fix", "m2")>>] >>),
        File(<< [name |-> "style_guide_rule",
                 items |-> <<Item(Join(<<colour, zq>>), "auto_fix", "m1"),
                             Item(zq, "flag_only", "m2"),
                             [message |-> "m3"]>>] >>) }

Oracles ==
    {   [w \in {zq, qz, colour} |-> IF w = zq THEN 99 ELSE 100],
        [w \in {zq, colour} |-> IF w = zq THEN 100 ELSE 101],
        [w \in {zq, colour, <<"b">>} |-> IF w = colour THEN 0 ELSE 5000] }

Init == InitWith("start", Windows(Corpus), RuleFiles, Oracles)

Next ==
    \/ Begin
    \/ NextParagraph
    \/ Return
    \/ NextRule
    \/ RuleMatch
    \/ CapsCheck
    \/ CapsMatch
    \/ CapsIssue
    \/ BritishMatch
    \/ BritishDone
    \/ SpellMatch
    \/ OracleRaises
    \/ SpellDone

Spec == Init /\ [][Next]_vars

\* paragraphs for the full-caps test: up to MaxCapsTokens words, upper case,
\* lower case or not alphabetic, and some with one-letter and mixed-case words
MaxCapsTokens == 5

CapsVocabulary == {ZQ, zq, b1}

CapsDocs ==
    {<<Para(ws, 0)>> : ws \in UNION {[1..n -> CapsVocabulary] : n \in 1..MaxCapsTokens}}
    \cup {<<Para(<< <<"Q">>, ZQ, zq >>, 0)>>,
          <<Para(<< <<"Z","q">>, ZQ, ZQ, <<"q">> >>, 4)>>,
          <<Para(<< <<"Z","Q","_","Z","Q">>, <<"Z","Q","'","s">> >>, 0), Para(<<>>, 0)>>}

CapsRuleFiles ==
    {   NoFile,
        File(<< [name |-> "style_guide_rule",
                 items |-> <<[match |-> ZQ, message |-> "m1", type |-> "auto_fix",
                              case_sensitive |-> TRUE]>>] >>) }

InitCaps == InitWith("start", CapsDocs, CapsRuleFiles, {[w \in {zq} |-> 100]})

SpecCaps == InitCaps /\ [][Next]_vars

\* a paragraph with a hyperlink: para.text has the hyperlink's text, para.runs
\* has only the runs that are outside it
Linked(pre, link, post, n) ==
    [text |-> pre \o link \o post, runs |-> Chunk(pre, n) \o Chunk(post, n)]

LinkedCorpus ==
    <<  Linked(colour \o <<" ">>, zq, <<>>, 0),
        Linked(<<>>, zq \o <<" ">>, colour, 0),
        Linked(zq \o <<" ">>, ZQ \o <<" ">>, zq \o <<" ">> \o colour, 2),
        Para(<<colour, zq>>, 0),
        Linked(ZQ \o <<" ">>, ZQ \o <<" ">>, zq, 0),
        Linked(<<>>, <<" ">>, <<>>, 0),
        Linked(qz \o <<" ">>, zq \o <<" ">>, COLOUR \o <<" ">> \o qz, 3) >>

InitLinked == InitWith("start", Windows(LinkedCorpus), RuleFiles, Oracles)
NextLinked == Next \/ PaintKeyError
SpecLinked == InitLinked /\ [][NextLinked]_vars

\* st.session_state.rules of the app: the two categories, after its load_rules
SessionRules ==
    {   File(<< [name |-> "style_guide_rule", items |-> <<>>],
                [name |-> "style_guide_caution", items |-> <<>>] >>),
        File(<< [name |-> "style_guide_caution",
                 items |-> <<Item(colour, "flag_only", "m1")>>],
                [name |-> "style_guide_rule",
                 items |-> <<Item(zq, "auto_fix", "m2"),
                             Item(Join(<<colour, zq>>), "auto_fix", "m3")>>] >>),
        File(<< [name |-> "style_guide_rule",
                 items |-> <<Item(Join(<<zq, colour>>), "auto_fix", "m1"),
                             [match |-> zq, message |-> "m2", replace_with |-> None,
                              case_sensitive |-> TRUE]>>] >>) }

InitApp == InitWith("app_start", Windows(Corpus), SessionRules, {<<>>})

SpecApp == InitApp /\ [][NextApp]_vars

\* either copy of analyze_doc
InitAll == Init \/ InitApp
NextAll == Next \/ NextApp
SpecAll == InitAll /\ [][NextAll]_vars

(***************************************************************************)
(* generate_diff of utils.py, with difflib.ndiff as the library computes   *)
(* it.  A sequence is a list of words or, inside ndiff, the characters of  *)
(* one word; indices are 0-based and ranges half-open, as in difflib.      *)
(***************************************************************************)
RECURSIVE SplitAtEachSpace(_)
SplitAtEachSpace(text) ==
    LET stops == {n \in 1..Len(text) : text[n] = " "}
        n == IF stops = {} THEN Len(text) + 1
             ELSE CHOOSE k \in stops : \A j \in stops : k <= j
    IN  IF text = <<>> THEN <<>>
        ELSE <<SubSeq(text, 1, n - 1)>> \o
             (IF n > Len(text) THEN <<>>
              ELSE SplitAtEachSpace(SubSeq(text, n + 1, Len(text))))

\* str.split(): the maximal stretches without white space
RECURSIVE Split(_)
Split(text) ==
    IF text = <<>> THEN <<>>
    ELSE IF Head(text) = " " THEN Split(Tail(text))
    ELSE LET stops == {n \in 1..Len(text) : text[n] = " "}
             n == IF stops = {} THEN Len(text) + 1
                  ELSE CHOOSE k \in stops : \A j \in stops : k <= j
         IN  <<SubSeq(text, 1, n - 1)>> \o Split(SubSeq(text, n, Len(text)))

\* SequenceMatcher.find_longest_match without junk: the longest block
\* a[i:i+k] == b[j:j+k] inside the ranges, the earliest in a, then in b
FindLongestMatch(a, b, alo, ahi, blo, bhi) ==
    LET blocks == {m \in (alo..(ahi - 1)) \X (blo..(bhi - 1)) \X (1..(ahi - alo)) :
                      /\ m[1] + m[3] <= ahi
                      /\ m[2] + m[3] <= bhi
                      /\ \A n \in 0..(m[3] - 1) : a[m[1] + n + 1] = b[m[2] + n + 1]}
        Better(m, o) == \/ m[3] > o[3]
                        \/ m[3] = o[3] /\ m[1] < o[1]
                        \/ m[3] = o[3] /\ m[1] = o[1] /\ m[2] < o[2]
    IN  IF blocks = {} THEN [i |-> alo, j |-> blo, k |-> 0]
        ELSE LET best == CHOOSE m \in blocks : \A o \in blocks \ {m} : Better(m, o)
             IN  [i |-> best[1], j |-> best[2], k |-> best[3]]

\* SequenceMatcher.get_matching_blocks: the longest match, then the same to
\* its left and to its right, in order
RECURSIVE MatchingBlocks(_, _, _, _, _, _)
MatchingBlocks(a, b, alo, ahi, blo, bhi) ==
    LET x == FindLongestMatch(a, b, alo, ahi, blo, bhi)
    IN  IF x.k = 0 THEN <<>>
        ELSE (IF alo < x.i /\ blo < x.j
              THEN MatchingBlocks(a, b, alo, x.i, blo, x.j) ELSE <<>>)
             \o <<x>> \o
             (IF x.i + x.k < ahi /\ x.j + x.k < bhi
              THEN MatchingBlocks(a, b, x.i + x.k, ahi, x.j + x.k, bhi) ELSE <<>>)

\* SequenceMatcher.get_opcodes
RECURSIVE OpcodesFrom(_, _, _)
OpcodesFrom(blocks, i, j) ==
    IF blocks = <<>> THEN <<>>
    ELSE LET m == Head(blocks)
             tag == IF i < m.i /\ j < m.j THEN "replace"
                    ELSE IF i < m.i THEN "delete"
                    ELSE IF j < m.j THEN "insert" ELSE ""
         IN  (IF tag # "" THEN <<[tag |-> tag, alo |-> i, ahi |-> m.i, blo |-> j, bhi |-> m.j]>>
              ELSE <<>>)
             \o (IF m.k > 0
                 THEN <<[tag |-> "equal", alo |-> m.i, ahi |-> m.i + m.k,
                         blo |-> m.j, bhi |-> m.j + m.k]>>
                 ELSE <<>>)
             \o OpcodesFrom(Tail(blocks), m.i + m.k, m.j + m.k)

Opcodes(a, b) ==
    OpcodesFrom(MatchingBlocks(a, b, 0, Len(a), 0, Len(b))
                    \o <<[i |-> Len(a), j |-> Len(b), k |-> 0]>>, 0, 0)

\* SequenceMatcher.ratio(): 2.0 * matches / length, kept as <<numerator, denominator>>
RECURSIVE Matches(_)
Matches(blocks) == IF blocks = <<>> THEN 0 ELSE Head(blocks).k + Matches(Tail(blocks))
Ratio(a, b) ==
    IF Len(a) + Len(b) = 0 THEN <<1, 1>>
    ELSE <<2 * Matches(MatchingBlocks(a, b, 0, Len(a), 0, Len(b))), Len(a) + Len(b)>>
Above(r, q) == r[1] * q[2] > q[1] * r[2]

\* Differ._dump
Dump(tag, x, lo, hi) == [n \in 1..(hi - lo) |-> [tag |-> tag, text |-> x[lo + n]]]

\* Differ._plain_replace: the shorter block first
PlainReplace(a, alo, ahi, b, blo, bhi) ==
    IF bhi - blo < ahi - alo
    THEN Dump("+", b, blo, bhi) \o Dump("-", a, alo, ahi)
    ELSE Dump("-", a, alo, ahi) \o Dump("+", b, blo, bhi)

Repeat(c, n) == [k \in 1..n |-> c]

\* the "? " guide of one side: a mark per character of the word, from the
\* opcodes that turn aelt into belt
RECURSIVE Tags(_, _)
Tags(ops, side) ==
    IF ops = <<>> THEN <<>>
    ELSE LET o == Head(ops)
             la == o.ahi - o.alo
             lb == o.bhi - o.blo
         IN  (CASE o.tag = "replace" -> Repeat("^", IF side = "a" THEN la ELSE lb)
                [] o.tag = "delete"  -> IF side = "a" THEN Repeat("-", la) ELSE <<>>
                [] o.tag = "insert"  -> IF side = "a" THEN <<>> ELSE Repeat("+", lb)
                [] OTHER             -> Repeat(" ", IF side = "a" THEN la ELSE lb))
             \o Tags(Tail(ops), side)

\* str.rstrip()
RECURSIVE RStrip(_)
RStrip(t) ==
    IF t = <<>> THEN <<>>
    ELSE IF t[Len(t)] = " " THEN RStrip(SubSeq(t, 1, Len(t) - 1)) ELSE t

\* Differ._qformat: the two words, each followed by its guide if it has marks
QFormat(aelt, belt) ==
    LET atags == RStrip(Tags(Opcodes(aelt, belt), "a"))
        btags == RStrip(Tags(Opcodes(aelt, belt), "b"))
    IN  <<[tag |-> "-", text |-> aelt]>>
        \o (IF atags # <<>> THEN <<[tag |-> "?", text |-> atags \o <<"\n">>]>> ELSE <<>>)
        \o <<[tag |-> "+", text |-> belt]>>
        \o (IF btags # <<>> THEN <<[tag |-> "?", text |-> btags \o <<"\n">>]>> ELSE <<>>)

\* the first of a set of pairs <<i, j>> in the order of the two loops of
\* _fancy_replace: j outside, i inside
FirstPair(pairs) ==
    CHOOSE p \in pairs : \A q \in pairs : p[2] < q[2] \/ (p[2] = q[2] /\ p[1] <= q[1])

\* Differ._fancy_replace and Differ._fancy_helper: synchronise on the pair of
\* words that are most alike, above the cutoff 0.75 (kept initial best 0.74)
RECURSIVE FancyReplace(_, _, _, _, _, _)
RECURSIVE FancyHelper(_, _, _, _, _, _)
FancyReplace(a, alo, ahi, b, blo, bhi) ==
    LET all   == (alo..(ahi - 1)) \X (blo..(bhi - 1))
        same  == {p \in all : a[p[1] + 1] = b[p[2] + 1]}
        close == {p \in all \ same : Above(Ratio(a[p[1] + 1], b[p[2] + 1]), <<74, 100>>)}
        top   == {p \in close : \A q \in close :
                     ~Above(Ratio(a[q[1] + 1], b[q[2] + 1]), Ratio(a[p[1] + 1], b[p[2] + 1]))}
        below == \/ close = {}
                 \/ Above(<<75, 100>>, Ratio(a[FirstPair(top)[1] + 1], b[FirstPair(top)[2] + 1]))
    IN  IF below /\ same = {} THEN PlainReplace(a, alo, ahi, b, blo, bhi)
        ELSE LET sync == IF below THEN FirstPair(same) ELSE FirstPair(top)
             IN  FancyHelper(a, alo, sync[1], b, blo, sync[2])
                 \o (IF below THEN <<[tag |-> " ", text |-> a[sync[1] + 1]]>>
                     ELSE QFormat(a[sync[1] + 1], b[sync[2] + 1]))
                 \o FancyHelper(a, sync[1] + 1, ahi, b, sync[2] + 1, bhi)

FancyHelper(a, alo, ahi, b, blo, bhi) ==
    IF alo < ahi
    THEN IF blo < bhi THEN FancyReplace(a, alo, ahi, b, blo, bhi)
         ELSE Dump("-", a, alo, ahi)
    ELSE IF blo < bhi THEN Dump("+", b, blo, bhi) ELSE <<>>

\* Differ.compare: a token [tag, text] stands for the line tag + " " + text
RECURSIVE CompareFrom(_, _, _)
CompareFrom(ops, a, b) ==
    IF ops = <<>> THEN <<>>
    ELSE LET o == Head(ops)
         IN  (CASE o.tag = "replace" -> FancyReplace(a, o.alo, o.ahi, b, o.blo, o.bhi)
                [] o.tag = "delete"  -> Dump("-", a, o.alo, o.ahi)
                [] o.tag = "insert"  -> Dump("+", b, o.blo, o.bhi)
                [] OTHER             -> Dump(" ", a, o.alo, o.ahi))
             \o CompareFrom(Tail(ops), a, b)

\* difflib.ndiff(a, b)
ndiff(a, b) == CompareFrom(Opcodes(a, b), a, b)

GREEN_OPEN == <<"<","s","p","a","n"," ","s","t","y","l","e","=","'","c","o","l","o","r",":","g","r","e","e","n","'",">">>
RED_OPEN == <<"<","s","p","a","n"," ","s","t","y","l","e","=","'","c","o","l","o","r",":","r","e","d","'",">">>
SPAN_CLOSE == <<"<","/","s","p","a","n",">">>

\* diff = difflib.ndiff(before_text.split(), after_text.split()); result = []
DiffCall ==
    /\ pc = "diff_start"
    /\ diff' = ndiff(Split(before_text), Split(after_text))
    /\ result' = <<>>
    /\ pc' = "diff_loop"
    /\ UNCHANGED <<before_text, after_text, returned>>
    /\ UNCHANGED docVars

\* for token in diff: token[0] is the tag and token[2:] the text
DiffToken ==
    /\ pc = "diff_loop"
    /\ diff # <<>>
    /\ LET token == Head(diff)
       IN  result' = Append(result,
               IF token.tag = "+" THEN GREEN_OPEN \o <<"+">> \o token.text \o SPAN_CLOSE
               ELSE IF token.tag = "-" THEN RED_OPEN \o <<"-">> \o token.text \o SPAN_CLOSE
               ELSE token.text)
    /\ diff' = Tail(diff)
    /\ UNCHANGED <<pc, before_text, after_text, returned>>
    /\ UNCHANGED docVars

MaxCalls == 2

\* return " ".join(result); the caller may call again
DiffReturn ==
    /\ pc = "diff_loop"
    /\ diff = <<>>
    /\ returned' = Append(returned, [tokens |-> result, text |-> Join(result)])
    /\ pc' = IF Len(returned) + 1 < MaxCalls THEN "diff_start" ELSE "diff_done"
    /\ UNCHANGED <<before_text, after_text, diff, result>>
    /\ UNCHANGED docVars

\* the texts: up to MaxDiffWords consecutive words of a list, taken
\* cyclically, and two texts with more white space
MaxDiffWords == 3

DiffWords == <<colour, zq, Colour, qz, zqq, zq, colour, zq, qz>>

DiffTexts ==
    {Join([k \in 1..n |-> DiffWords[((s + k - 2) % Len(DiffWords)) + 1]]) :
        s \in 1..Len(DiffWords), n \in 0..MaxDiffWords}
    \cup {<<" ">> \o zq \o <<" ", " ">> \o colour \o <<" ">> \o zq,
          colour \o <<" ", " ">> \o zq \o <<" ">>}

InitDiff ==
    /\ before_text \in DiffTexts
    /\ after_text \in DiffTexts
    /\ diff = <<>>
    /\ result = <<>>
    /\ returned = <<>>
    /\ pc = "diff_start"
    /\ doc = <<>>
    /\ data = NoFile
    /\ freq = <<>>
    /\ rules = <<>>
    /\ para_idx = 0
    /\ ri = 0
    /\ it = <<>>
    /\ char_to_run = <<>>
    /\ applied_indices = {}
    /\ reported = {}
    /\ color = <<>>
    /\ results = <<>>
    /\ accepted = <<>>

NextDiff == DiffCall \/ DiffToken \/ DiffReturn

SpecDiff == InitDiff /\ [][NextDiff]_vars

(***************************************************************************)
(* Properties                                                              *)
(***************************************************************************)
\* the offsets start..end-1 of a match
Offsets(a) == {i \in 0..(a.end - 1) : a.start <= i}

\* analyze_doc is inside a paragraph
InParagraph == pc \in {"rules", "capsloop", "british", "spell", "app_rules"}

\* the accepted matches of paragraph p
AcceptedIn(p) == {k \in 1..Len(accepted) : accepted[k].para = p}

\* C1: no two accepted matches of a paragraph share a character offset, whatever
\* their passes, and the claimed set of a paragraph holds the offsets of that
\* paragraph's accepted matches only: it starts empty for each paragraph.
C1_NoOverlap ==
    /\ \A j, k \in 1..Len(accepted) :
            (j < k /\ accepted[j].para = accepted[k].para)
                => Offsets(accepted[j]) \cap Offsets(accepted[k]) = {}
    /\ InParagraph =>
            applied_indices = UNION {Offsets(accepted[k]) : k \in AcceptedIn(para_idx)}

\* two passes have claimed text of one paragraph, a candidate that overlaps a
\* claim is waiting, and an earlier paragraph has claims of its own
C1_Witness ==
    /\ InParagraph
    /\ it # <<>>
    /\ Offsets(Head(it)) \cap applied_indices # {}
    /\ \E j, k \in AcceptedIn(para_idx) : accepted[j].pass # accepted[k].pass
    /\ \E j \in 1..Len(accepted) : accepted[j].para < para_idx

\* the Issue a step appends, if it appends one
Appends == Len(results') = Len(results) + 1
NewIssue == results'[Len(results')]

\* the offsets of the text an Issue quotes
IssueOffsets(r) == {i \in 0..(r.char_index + Len(r.match) - 2) : r.char_index - 1 <= i}

\* C2: once an offset is claimed, no later step of the paragraph changes the
\* colour shown on its character, and no later Issue quotes a span that
\* contains it (the "ALL CAPS sentence" Issue quotes no span).
C2_NoRecolourAfterClaim ==
    [][\A i \in applied_indices :
          /\ color'[para_idx][char_to_run[i]] = color[para_idx][char_to_run[i]]
          /\ (Appends /\ NewIssue.match # ALL_CAPS) => i \notin IssueOffsets(NewIssue)]_vars

\* C3: a literal rule is accepted, and so reported and coloured, at most once
\* in a paragraph, however often its pattern occurs there.
C3_OncePerRuleAndParagraph ==
    \A j, k \in 1..Len(accepted) :
        (/\ accepted[j].pass = "literal"
         /\ accepted[k].pass = "literal"
         /\ accepted[j].para = accepted[k].para
         /\ accepted[j].rule = accepted[k].rule) => j = k

\* the text of an accepted match, as written in its paragraph
Quoted(a) == [n \in 1..(a.end - a.start) |-> doc[a.para].text[a.start + n]]

\* the Issues that report the accepted match a
IssuesOf(a) ==
    {n \in 1..Len(results) :
        /\ results[n].paragraph_index = a.para
        /\ results[n].char_index = a.start + 1
        /\ results[n].match = Quoted(a)}

\* C4 as claimed: every accepted match of every pass, the upper-case words of
\* the capitalization pass included, has exactly one Issue, with char_index its
\* start offset plus 1 and paragraph_index the position of its paragraph.
C4_EveryAcceptedMatchHasAnIssue ==
    \A k \in 1..Len(accepted) : Cardinality(IssuesOf(accepted[k])) = 1

\* C4 as amended: an accepted match of the literal, British spelling or
\* dictionary pass has exactly one Issue, with char_index its start offset plus
\* 1 and paragraph_index the 1-based position of its paragraph among all
\* paragraphs; an accepted upper-case word of the capitalization pass has none
\* of its own; and every Issue but the "ALL CAPS sentence" ones reports an
\* accepted match.
C4_AcceptedMatchesAndIssues ==
    /\ \A k \in 1..Len(accepted) :
            IF accepted[k].pass = "caps"
            THEN IssuesOf(accepted[k]) = {}
            ELSE Cardinality(IssuesOf(accepted[k])) = 1
    /\ \A n \in 1..Len(results) :
            /\ results[n].paragraph_index \in 1..Len(doc)
            /\ results[n].context = doc[results[n].paragraph_index].text
            /\ results[n].match # ALL_CAPS =>
                    \E k \in 1..Len(accepted) :
                        accepted[k].pass # "caps" /\ n \in IssuesOf(accepted[k])

\* the call has returned; upper-case words were accepted, and so were matches
\* of other passes in a second paragraph that follows a blank one
C4_Witness ==
    /\ pc = "done"
    /\ Len(doc) >= 2 /\ IsBlank(doc[1].text)
    /\ \E i, j, k \in AcceptedIn(2) :
            /\ accepted[i].pass = "caps"
            /\ accepted[j].pass = "literal"
            /\ accepted[k].pass \in {"british", "spell"}

\* a step of one of the four loops that takes the next match of its finditer
MatchStep ==
    /\ pc \in {"rules", "capsloop", "british", "spell"}
    /\ it # <<>>
    /\ it' = Tail(it)

\* the text of the match that is next
NextWord == [n \in 1..(Head(it).end - Head(it).start) |-> Text[Head(it).start + n]]

\* the next match is the first occurrence of the current rule's pattern
FirstOccurrence ==
    it = FindLiteral(Text, rules[ri].pattern, ~rules[ri].case_sensitive)

\* the next match is a candidate of its pass: any match of a rule or of the
\* upper-case scan, a word of the British table, a rare alphabetic word
IsCandidate ==
    CASE pc = "british" -> \E n \in 1..Len(BRITISH_TO_AMERICAN) :
                              BRITISH_TO_AMERICAN[n].k = [j \in 1..Len(NextWord) |->
                                                            LowerCh(NextWord[j])]
      [] pc = "spell"   -> /\ \A j \in 1..Len(NextWord) : NextWord[j] \in Letters
                           /\ Frequency([j \in 1..Len(NextWord) |-> LowerCh(NextWord[j])])
                                  < RARITY_THRESHOLD
      [] OTHER          -> TRUE

\* one of the next match's offsets is claimed
NextIsClaimed == Offsets(Head(it)) \cap applied_indices # {}

\* a rule with the pattern text of the current rule was accepted in this paragraph
PatternReported ==
    \E k \in AcceptedIn(para_idx) :
        accepted[k].pass = "literal" /\ rules[accepted[k].rule].pattern = rules[ri].pattern

\* the step accepts the next match and claims every offset of it
AcceptsNext ==
    /\ Len(accepted') = Len(accepted) + 1
    /\ accepted'[Len(accepted')].start = Head(it).start
    /\ accepted'[Len(accepted')].end = Head(it).end
    /\ accepted'[Len(accepted')].para = para_idx
    /\ applied_indices' = applied_indices \cup Offsets(Head(it))

\* the step rejects the next match as a whole
RejectsNext == UNCHANGED <<applied_indices, color, results, accepted>>

\* C5 as claimed: in every pass a candidate (for a literal rule: the first
\* occurrence of its pattern) is accepted iff none of its offsets is claimed,
\* and then all of them become claimed; otherwise the claimed set, the run
\* styles and the Issue list are left as they were.
C5_AcceptedIffUnclaimed ==
    [][(MatchStep /\ IsCandidate /\ (pc = "rules" => FirstOccurrence))
          => IF NextIsClaimed THEN RejectsNext ELSE AcceptsNext]_vars

\* C5 as amended: a candidate (every match of a literal rule included) is
\* accepted iff none of its offsets is claimed and, in the literal pass, no
\* rule with the same pattern text was accepted in the paragraph before; then
\* all its offsets become claimed.  Any other match is rejected as a whole:
\* the claimed set, the run styles and the Issue list are left as they were.
C5_AtomicClaim ==
    [][MatchStep
          => IF IsCandidate /\ ~NextIsClaimed /\ ~(pc = "rules" /\ PatternReported)
             THEN AcceptsNext
             ELSE RejectsNext]_vars

\* the current rule's finditer has passed a match that has a claimed and an
\* unclaimed offset: it was rejected, and its free offsets stay free
C5_Witness ==
    /\ pc = "rules"
    /\ ri >= 1
    /\ LET all == FindLiteral(Text, rules[ri].pattern, ~rules[ri].case_sensitive)
           n == Len(all) - Len(it)
       IN  /\ n >= 1
           /\ Offsets(all[n]) \cap applied_indices # {}
           /\ Offsets(all[n]) \ applied_indices # {}
           /\ all[n].start \notin applied_indices

\* the pass an Issue comes from: 1 literal rule, 2 ALL CAPS, 3 British
\* spelling, 4 dictionary
PassRank(r) ==
    IF r.rule_category \in {"Style Guide Rule", "Style Guide Caution"} THEN 1
    ELSE IF r.match = ALL_CAPS THEN 2
    ELSE IF r.rule_category = "Style guide caution" THEN 3
    ELSE 4

\* Issues in paragraph order, then pass order, then ascending offset within a
\* heuristic pass; accepted literal matches in rule order, one rule's in
\* ascending offset
OrderedByParagraphPassOffset ==
    /\ \A m, n \in 1..Len(results) :
            m < n =>
                /\ results[m].paragraph_index <= results[n].paragraph_index
                /\ results[m].paragraph_index = results[n].paragraph_index =>
                        /\ PassRank(results[m]) <= PassRank(results[n])
                        /\ (PassRank(results[m]) = PassRank(results[n])
                                /\ PassRank(results[m]) # 1)
                             => results[m].char_index < results[n].char_index
    /\ \A j, k \in 1..Len(accepted) :
            (/\ j < k
             /\ accepted[j].para = accepted[k].para
             /\ accepted[j].pass = "literal"
             /\ accepted[k].pass = "literal")
            => /\ accepted[j].rule <= accepted[k].rule
               /\ accepted[j].rule = accepted[k].rule
                     => accepted[j].start < accepted[k].start

\* the rule list holds every StyleRule rule before every StyleCaution rule
RulesBeforeCautions ==
    \A j, k \in 1..Len(rules) :
        j < k => ~(/\ rules[j].rule_type = "style guide caution"
                   /\ rules[k].rule_type = "style guide rule")

\* C6: Issues are ordered by paragraph, then by pass (literal rules, ALL CAPS,
\* British spelling, dictionary), then by start offset; the literal pass scans
\* every StyleRule rule before every StyleCaution rule, in list order.
C6_IssueOrder == OrderedByParagraphPassOffset /\ RulesBeforeCautions

\* the full-caps test of paragraph p is over
CapsDone(p) ==
    \/ p < para_idx
    \/ p = para_idx /\ pc \in {"british", "spell", "para", "done", "raised"}

\* the alphabetic tokens of length >= 2: letters between two places where the
\* text starts, ends or has a character that is no letter, digit or underscore
WordCharacters == Letters \cup Digits \cup {"_"}
AlphaTokens(text) ==
    {t \in (0..Len(text)) \X (0..Len(text)) :
        /\ t[2] - t[1] >= 2
        /\ \A i \in (t[1] + 1)..t[2] : text[i] \in Letters
        /\ t[1] = 0 \/ text[t[1]] \notin WordCharacters
        /\ t[2] = Len(text) \/ text[t[2] + 1] \notin WordCharacters}

UpperTokens(text) ==
    {t \in AlphaTokens(text) : \A i \in (t[1] + 1)..t[2] : text[i] \in UpperSet}

\* at least one token, and the upper-case ones are 60% of them or more
SixtyPercentUpper(text) ==
    /\ AlphaTokens(text) # {}
    /\ 100 * Cardinality(UpperTokens(text)) >= 60 * Cardinality(AlphaTokens(text))

CapsIssues(p) ==
    {n \in 1..Len(results) :
        results[n].paragraph_index = p /\ results[n].match = ALL_CAPS}

\* C7: a non-blank paragraph gets the "ALL CAPS sentence" Issue (StyleCaution,
\* char_index 1, no replacement) iff it has an alphabetic token of two letters
\* or more and at least 60% of these tokens are upper case; it gets it once,
\* however many upper-case words there are and however many were accepted.
C7_CapsThreshold ==
    \A p \in 1..Len(doc) :
        CapsDone(p) =>
            /\ Cardinality(CapsIssues(p)) =
                    IF ~IsBlank(doc[p].text) /\ SixtyPercentUpper(doc[p].text) THEN 1 ELSE 0
            /\ \A n \in CapsIssues(p) :
                    /\ results[n].rule_category = "Style guide caution"
                    /\ results[n].char_index = 1
                    /\ results[n].suggested_replacement = None

\* the call has returned for a paragraph of five tokens, three of them upper
\* case, of which a rule had claimed one: the Issue is there, once
C7_Witness ==
    /\ pc = "done"
    /\ Cardinality(AlphaTokens(doc[1].text)) = 5
    /\ Cardinality(UpperTokens(doc[1].text)) = 3
    /\ Cardinality({k \in AcceptedIn(1) : accepted[k].pass = "caps"}) = 2
    /\ Cardinality(CapsIssues(1)) = 1

\* the British-spelling pass of paragraph p is over
BritishOver(p) ==
    \/ p < para_idx
    \/ p = para_idx /\ pc \in {"spell", "para", "done", "raised"}

\* the dictionary pass of paragraph p is over
SpellOver(p) ==
    \/ p < para_idx
    \/ p = para_idx /\ pc \in {"para", "done"}

\* the word tokens of paragraph p, each with its text and its lower-case form
Tokens(p) == {Words(doc[p].text)[k] : k \in 1..Len(Words(doc[p].text))}
Written(p, t) == [n \in 1..(t.end - t.start) |-> doc[p].text[t.start + n]]
LowerCase(w) == [n \in 1..Len(w) |-> IF w[n] \in UpperSet THEN LowerMap[w[n]] ELSE w[n]]

\* an accepted match of one of the passes shares an offset with token t
ClaimedBy(p, t, passes) ==
    \E k \in AcceptedIn(p) :
        accepted[k].pass \in passes /\ Offsets(accepted[k]) \cap Offsets(t) # {}

\* the Issues of paragraph p that start where token t starts
IssuesAt(p, t) ==
    {n \in 1..Len(results) :
        /\ results[n].paragraph_index = p
        /\ results[n].char_index = t.start + 1
        /\ results[n].match # ALL_CAPS}

\* the pass accepted exactly token t
AcceptedBy(p, t, pass) ==
    \E k \in AcceptedIn(p) :
        /\ accepted[k].pass = pass
        /\ accepted[k].start = t.start
        /\ accepted[k].end = t.end

TableKeys == {BRITISH_TO_AMERICAN[n].k : n \in 1..Len(BRITISH_TO_AMERICAN)}

\* C8: every word token whose lower-case form is a key of the British table and
\* that the literal and capitalization passes left unclaimed is accepted by the
\* British pass and has one Issue of its own: the word as written, StyleCaution,
\* the table's American form as replacement ("color" for "colour" in any
\* case); two such occurrences in a paragraph have two Issues.
C8_RegionalSpelling ==
    \A p \in 1..Len(doc) :
        (BritishOver(p) /\ ~IsBlank(doc[p].text)) =>
            \A t \in Tokens(p) :
                (/\ LowerCase(Written(p, t)) \in TableKeys
                 /\ ~ClaimedBy(p, t, {"literal", "caps"}))
                    => /\ AcceptedBy(p, t, "british")
                       /\ Cardinality(IssuesAt(p, t)) = 1
                       /\ \A n \in IssuesAt(p, t) :
                            /\ results[n].match = Written(p, t)
                            /\ results[n].rule_category = "Style guide caution"
                            /\ \E e \in 1..Len(BRITISH_TO_AMERICAN) :
                                 /\ BRITISH_TO_AMERICAN[e].k = LowerCase(Written(p, t))
                                 /\ BRITISH_TO_AMERICAN[e].v = results[n].suggested_replacement
                            /\ LowerCase(Written(p, t)) = colour
                                 => results[n].suggested_replacement = <<"c","o","l","o","r">>

\* the call has returned for a paragraph where "COLOUR", "colour" and "Colour"
\* were all unclaimed: three Issues, each suggesting "color"
C8_Witness ==
    /\ pc = "done"
    /\ \E p \in 1..Len(doc) :
        /\ Cardinality({k \in AcceptedIn(p) : accepted[k].pass = "british"}) = 3
        /\ \E t \in Tokens(p) : Written(p, t) = Colour /\ AcceptedBy(p, t, "british")
        /\ \E t \in Tokens(p) : Written(p, t) = COLOUR /\ AcceptedBy(p, t, "british")
        /\ Cardinality({n \in 1..Len(results) :
                            /\ results[n].paragraph_index = p
                            /\ results[n].suggested_replacement = <<"c","o","l","o","r">>}) = 3

\* the oracle's answer for a word, 0 for a word it does not know, in units of 1e-8
OracleSays(w) == IF w \in DOMAIN freq THEN freq[w] ELSE 0
Alphabetic(w) == \A n \in 1..Len(w) : w[n] \in Letters

\* C9: a purely alphabetic word token that the earlier passes left unclaimed is
\* flagged by the dictionary pass (one Issue per occurrence, StyleRule, no
\* replacement) iff the oracle's frequency of its lower-case form is strictly
\* below 1e-6: a word at exactly 1e-6 is not flagged, one at 9.9e-7 is; a token
\* with an apostrophe is never flagged.
C9_RarityThreshold ==
    \A p \in 1..Len(doc) :
        (SpellOver(p) /\ ~IsBlank(doc[p].text)) =>
            \A t \in Tokens(p) :
                /\ (Alphabetic(Written(p, t)) /\ ~ClaimedBy(p, t, {"literal", "caps", "british"}))
                    => /\ AcceptedBy(p, t, "spell")
                            <=> OracleSays(LowerCase(Written(p, t))) < 100
                       /\ Cardinality(IssuesAt(p, t)) =
                            IF OracleSays(LowerCase(Written(p, t))) < 100 THEN 1 ELSE 0
                       /\ \A n \in IssuesAt(p, t) :
                            /\ results[n].match = Written(p, t)
                            /\ results[n].rule_category = "Style guide rule"
                            /\ results[n].suggested_replacement = None
                /\ ~Alphabetic(Written(p, t)) => ~AcceptedBy(p, t, "spell")

\* the call has returned for a paragraph with an unclaimed word at 9.9e-7 that is
\* flagged, an unclaimed word at exactly 1e-6 that is not, and an unclaimed
\* token with an apostrophe that is not
C9_Witness ==
    /\ pc = "done"
    /\ \E p \in 1..Len(doc) :
        /\ \E t \in Tokens(p) :
            /\ OracleSays(LowerCase(Written(p, t))) = 99
            /\ AcceptedBy(p, t, "spell")
            /\ Cardinality(IssuesAt(p, t)) = 1
        /\ \E t \in Tokens(p) :
            /\ Alphabetic(Written(p, t))
            /\ OracleSays(LowerCase(Written(p, t))) = 100
            /\ ~ClaimedBy(p, t, {"literal", "caps", "british", "spell"})
            /\ IssuesAt(p, t) = {}
        /\ \E t \in Tokens(p) :
            /\ ~Alphabetic(Written(p, t))
            /\ ~ClaimedBy(p, t, {"literal", "caps", "british", "spell"})
            /\ IssuesAt(p, t) = {}

\* C10: a failure of the word-frequency oracle does not end the call: analyze_doc
\* never stops on the oracle's exception instead of returning.
C10_OracleFailureRecoverable == pc # "raised"

\* the run lengths of paragraph p do not add up to the length of its text
RunLength(p) == TotalLen(doc[p].runs)
Mismatched(p) == RunLength(p) # Len(doc[p].text)

\* C11: a paragraph whose run lengths do not add up to the length of its text
\* is not annotated: none of its runs is coloured, no match of it is accepted,
\* no offset of it is claimed and no Issue is reported for it.
C11_StructuralMismatch ==
    \A p \in 1..Len(doc) :
        Mismatched(p) =>
            /\ \A r \in 1..Len(doc[p].runs) : color[p][r] = NoColor
            /\ AcceptedIn(p) = {}
            /\ \A n \in 1..Len(results) : results[n].paragraph_index # p
            /\ (p = para_idx /\ InParagraph) => applied_indices = {}

\* the pattern is the empty string or has nothing but white space
BlankPattern(pattern) == \A n \in 1..Len(pattern) : pattern[n] = " "

\* C12: a rule whose pattern is empty or only white space never has a match
\* accepted: it claims no offset, colours no run and has no Issue.
C12_BlankPatternsNeverMatch ==
    \A k \in 1..Len(accepted) :
        accepted[k].pass = "literal" => ~BlankPattern(rules[accepted[k].rule].pattern)

\* the offsets of paragraph p that run r owns
RunOffsets(p, r) ==
    LET before == TotalLen(SubSeq(doc[p].runs, 1, r - 1))
    IN  {i \in 0..(Len(doc[p].text) - 1) : before <= i /\ i < before + Len(doc[p].runs[r])}

\* a step changes the colour of run r of paragraph p
Recoloured(p, r) == color'[p][r] # color[p][r]

\* a step accepts a match of paragraph p that has one of the offsets of run r
AcceptsIn(p, r) ==
    /\ Len(accepted') = Len(accepted) + 1
    /\ accepted'[Len(accepted')].para = p
    /\ Offsets(accepted'[Len(accepted')]) \cap RunOffsets(p, r) # {}

Uncoloured(p) == \A r \in 1..Len(doc[p].runs) : color[p][r] = NoColor

\* no step changes a text, a run or a paragraph, and a step changes the colour
\* of a run only by accepting a match with an offset of that run
FrameOfStep ==
    /\ doc' = doc
    /\ \A p \in 1..Len(doc) : \A r \in 1..Len(doc[p].runs) :
            Recoloured(p, r) => AcceptsIn(p, r)

\* a blank paragraph keeps its styles, and with no accepted match there is no
\* Issue and no coloured run
FrameOfState ==
    /\ \A p \in 1..Len(doc) :
            IsBlank(doc[p].text) => Uncoloured(p) /\ AcceptedIn(p) = {}
    /\ accepted = <<>> => (results = <<>> /\ \A p \in 1..Len(doc) : Uncoloured(p))

\* C13: analyze_doc changes no text and no run or paragraph structure; a run's
\* colour changes only when a match with one of its offsets is accepted; a
\* whitespace-only paragraph keeps its styles; with no accepted match the
\* Issue list is empty and the document is as it was.
C13_Frame == []FrameOfState /\ [][FrameOfStep]_vars

\* the call has returned for a document with a whitespace-only paragraph that
\* has a run, and a paragraph of which some runs are coloured and some are not
C13_Witness ==
    /\ pc = "done"
    /\ \E p \in 1..Len(doc) : IsBlank(doc[p].text) /\ doc[p].runs # <<>> /\ Uncoloured(p)
    /\ \E p \in 1..Len(doc) :
        /\ \E r \in 1..Len(doc[p].runs) : color[p][r] # NoColor
        /\ \E r \in 1..Len(doc[p].runs) : color[p][r] = NoColor
        /\ AcceptedIn(p) # {}

\* the whitespace-split words of a text: its maximal stretches without white
\* space, from left to right
WordSpans(text) ==
    {w \in (1..Len(text)) \X (1..Len(text)) :
        /\ w[1] <= w[2]
        /\ \A n \in w[1]..w[2] : text[n] # " "
        /\ w[1] = 1 \/ text[w[1] - 1] = " "
        /\ w[2] = Len(text) \/ text[w[2] + 1] = " "}

WordsIn(text) ==
    [k \in 1..Cardinality(WordSpans(text)) |->
        LET w == CHOOSE v \in WordSpans(text) :
                    Cardinality({u \in WordSpans(text) : u[1] < v[1]}) = k - 1
        IN  [n \in 1..(w[2] - w[1] + 1) |-> text[w[1] + n - 1]]]

\* C14: calls of generate_diff with the same arguments return the same, and
\* generate_diff(x, x) returns the whitespace-split words of x, in order, each
\* as an unchanged token: the word itself, with no insertion or deletion mark.
C14_DiffRestartAndIdentity ==
    /\ \A m, n \in 1..Len(returned) : returned[m] = returned[n]
    /\ before_text = after_text =>
            \A n \in 1..Len(returned) :
                /\ returned[n].tokens = WordsIn(before_text)
                /\ returned[n].text = Join(WordsIn(before_text))

\* two calls have returned for a text of three words, one of them twice, given
\* as both arguments with more white space than the words need
C14_Witness ==
    /\ pc = "diff_done"
    /\ Len(returned) >= 2
    /\ before_text = after_text
    /\ Len(returned[1].tokens) = 3
    /\ returned[1].tokens[1] = returned[1].tokens[3]
    /\ Len(before_text) > Len(returned[1].text)

\* the words of the two arguments, and what a token is of
InputWords ==
    {WordsIn(before_text)[k] : k \in 1..Len(WordsIn(before_text))}
    \cup {WordsIn(after_text)[k] : k \in 1..Len(WordsIn(after_text))}
Kinds(t) ==
    {k \in {"unchanged", "inserted", "deleted"} :
        \E w \in InputWords :
            t = CASE k = "inserted" -> GREEN_OPEN \o <<"+">> \o w \o SPAN_CLOSE
                  [] k = "deleted"  -> RED_OPEN \o <<"-">> \o w \o SPAN_CLOSE
                  [] OTHER          -> w}
WordOf(t) ==
    CHOOSE w \in InputWords :
        t \in {w, GREEN_OPEN \o <<"+">> \o w \o SPAN_CLOSE, RED_OPEN \o <<"-">> \o w \o SPAN_CLOSE}

\* the words of the tokens of the given kinds, in output order
RECURSIVE WordsOfKinds(_, _)
WordsOfKinds(tokens, kinds) ==
    IF tokens = <<>> THEN <<>>
    ELSE (IF Kinds(Head(tokens)) \cap kinds # {} THEN <<WordOf(Head(tokens))>> ELSE <<>>)
         \o WordsOfKinds(Tail(tokens), kinds)

\* C15: every token generate_diff returns is a word of one of its arguments,
\* unchanged, inserted or deleted; the unchanged and deleted ones are the words
\* of before_text in order, the unchanged and inserted ones those of after_text.
C15_DiffTokensAreInputWords ==
    \A n \in 1..Len(returned) :
        /\ \A k \in 1..Len(returned[n].tokens) : Kinds(returned[n].tokens[k]) # {}
        /\ WordsOfKinds(returned[n].tokens, {"unchanged", "deleted"}) = WordsIn(before_text)
        /\ WordsOfKinds(returned[n].tokens, {"unchanged", "inserted"}) = WordsIn(after_text)

\* the literal pass is through with rule r in paragraph p
Scanned(p, r) ==
    \/ p < para_idx
    \/ p = para_idx /\ (pc # "rules" \/ ri > r \/ (ri = r /\ it = <<>>))

\* a word character, and the place between two characters of which one is
WordChar(text, n) == n >= 1 /\ n <= Len(text) /\ text[n] \in WordCharacters
WordEdge(text, i) == WordChar(text, i) # WordChar(text, i + 1)

\* the whole-word occurrences of a pattern: their start offsets
WholeWordStarts(text, pattern, ignorecase) ==
    {st \in 0..(Len(text) - Len(pattern)) :
        /\ \A n \in 1..Len(pattern) :
              IF ignorecase
              THEN LowerCase(<<text[st + n]>>) = LowerCase(<<pattern[n]>>)
              ELSE text[st + n] = pattern[n]
        /\ WordEdge(text, st)
        /\ WordEdge(text, st + Len(pattern))}

\* ... from left to right, none beginning inside the one before it
RECURSIVE LeftToRight(_, _, _)
LeftToRight(starts, length, from) ==
    LET rest == {st \in starts : st >= from}
    IN  IF rest = {} THEN {}
        ELSE LET st == CHOOSE x \in rest : \A y \in rest : x <= y
             IN  {st} \cup LeftToRight(starts, length, st + length)

Occurrences(p, r) ==
    LET pattern == rules[r].pattern
        starts == LeftToRight(WholeWordStarts(doc[p].text, pattern, ~rules[r].case_sensitive),
                              Len(pattern), 0)
    IN  {[start |-> st, end |-> st + Len(pattern)] : st \in starts}

\* an earlier rule's accepted match has one of the offsets of occurrence o
ClaimedByEarlierRule(p, r, o) ==
    \E k \in AcceptedIn(p) :
        /\ accepted[k].pass = "literal"
        /\ accepted[k].rule < r
        /\ Offsets(accepted[k]) \cap Offsets(o) # {}

\* an earlier rule with the same pattern text has an accepted match in p
ReportedByEarlierRule(p, r) ==
    \E k \in AcceptedIn(p) :
        /\ accepted[k].pass = "literal"
        /\ accepted[k].rule < r
        /\ rules[accepted[k].rule].pattern = rules[r].pattern

AcceptedOf(p, r) == {k \in AcceptedIn(p) : accepted[k].pass = "literal" /\ accepted[k].rule = r}

\* C16 as claimed: the only occurrence of a literal rule that is ever accepted
\* is the leftmost whole-word occurrence of its pattern in the paragraph.
C16_OnlyFirstOccurrenceIsCandidate ==
    \A k \in 1..Len(accepted) :
        accepted[k].pass = "literal" =>
            \A o \in Occurrences(accepted[k].para, accepted[k].rule) :
                accepted[k].start <= o.start

\* C16: a literal rule has at most one accepted occurrence in a paragraph: the
\* leftmost one that no earlier rule's match overlaps, and none if an earlier
\* rule with the same pattern text was accepted there.  An occurrence to the
\* right of a rejected one can be the accepted one.
C16_FirstUnclaimedOccurrence ==
    \A p \in 1..Len(doc) : \A r \in 1..Len(rules) :
        (Scanned(p, r) /\ ~IsBlank(doc[p].text) /\ pc \notin {"start", "keyerror"}) =>
            /\ Cardinality(AcceptedOf(p, r)) <= 1
            /\ rules[r].pattern = <<>> => AcceptedOf(p, r) = {}
            /\ rules[r].pattern # <<>> =>
                \A o \in Occurrences(p, r) :
                    (\E k \in AcceptedOf(p, r) :
                        accepted[k].start = o.start /\ accepted[k].end = o.end)
                    <=> /\ ~ClaimedByEarlierRule(p, r, o)
                        /\ ~ReportedByEarlierRule(p, r)
                        /\ \A o2 \in Occurrences(p, r) :
                              o2.start < o.start => ClaimedByEarlierRule(p, r, o2)
            /\ \A k \in AcceptedOf(p, r) :
                    \E o \in Occurrences(p, r) : accepted[k].start = o.start

\* the call has returned; a rule's leftmost occurrence was overlapped by an
\* earlier rule's match and the occurrence after it was accepted
C16_Witness ==
    /\ pc = "done"
    /\ \E p \in 1..Len(doc) : \E r \in 1..Len(rules) : \E k \in AcceptedOf(p, r) :
          \E o \in Occurrences(p, r) :
              /\ o.start < accepted[k].start
              /\ ClaimedByEarlierRule(p, r, o)

\* a step accepts a match: the match
AcceptsOne == Len(accepted') = Len(accepted) + 1
Latest == accepted'[Len(accepted')]

\* the colour of the category of an accepted match: red for a StyleRule rule and
\* for a rare word, orange for a StyleCaution rule, an upper-case word and a
\* British spelling
SeverityColour(a) ==
    IF \/ a.pass = "spell"
       \/ a.pass = "literal" /\ rules[a.rule].rule_type = "style guide rule"
    THEN <<255, 0, 0>>
    ELSE <<255, 165, 0>>

\* C17: right after a match is accepted, every run with at least one of the
\* match's offsets, partly covered or not, has the colour of the match's
\* category: red for StyleRule, orange for StyleCaution.
C17_WholeRunColour ==
    [][AcceptsOne =>
          \A r \in 1..Len(doc[Latest.para].runs) :
              RunOffsets(Latest.para, r) \cap Offsets(Latest) # {}
                  => color'[Latest.para][r] = SeverityColour(Latest)]_vars

\* the match accepted last has offsets of two runs, covers neither of them
\* wholly, and both runs have its colour
C17_Witness ==
    /\ accepted # <<>>
    /\ LET a == accepted[Len(accepted)]
       IN  \E r1, r2 \in 1..Len(doc[a.para].runs) :
              /\ r1 # r2
              /\ \A r \in {r1, r2} :
                    /\ RunOffsets(a.para, r) \cap Offsets(a) # {}
                    /\ ~(RunOffsets(a.para, r) \subseteq Offsets(a))
                    /\ color[a.para][r] = <<255, 165, 0>>
              /\ a.pass = "british"

\* the accepted matches of the literal pass in paragraph p
LiteralIn(p) == {k \in AcceptedIn(p) : accepted[k].pass = "literal"}

\* C18: in a paragraph no two accepted matches of the literal pass are of rules
\* with the same pattern text, whether of one rule or of two that differ in
\* category or in case_sensitive; so once a pattern text has an Issue there, no
\* rule with that pattern text gets another Issue or colours a run, even for
\* an occurrence nothing overlaps.
C18_ReportOncePerPatternText ==
    \A p \in 1..Len(doc) : \A j, k \in LiteralIn(p) :
        j # k => rules[accepted[j].rule].pattern # rules[accepted[k].rule].pattern

\* the call has returned; of two rules with one pattern text that differ in
\* case_sensitive, the first was accepted in a paragraph and the second was
\* not, though it has an occurrence there that no literal match overlaps
C18_Witness ==
    /\ pc = "done"
    /\ \E p \in 1..Len(doc) : \E r1, r2 \in 1..Len(rules) :
        /\ r1 < r2
        /\ rules[r1].pattern = rules[r2].pattern
        /\ rules[r1].case_sensitive # rules[r2].case_sensitive
        /\ AcceptedOf(p, r1) # {}
        /\ AcceptedOf(p, r2) = {}
        /\ \E o \in Occurrences(p, r2) :
              \A k \in LiteralIn(p) : Offsets(accepted[k]) \cap Offsets(o) = {}

====
